---- MODULE Spec2Model ----
(***************************************************************************)
(* A model of src/bot.py: the WebScraper class (rate gate, lazily created *)
(* aiohttp session, head / get_raw / fetch_page, discover, analyze_dir,    *)
(* close) run by the asyncio event loop, the command handlers of CrawlCog  *)
(* that call it, and the DirectoryView that pages through what discover    *)
(* found.                                                                  *)
(*                                                                         *)
(* Scheduling is asyncio's: one task runs at a time, from one suspension   *)
(* point (an await that really suspends) to the next, so every action      *)
(* below is one such run-to-suspension segment of a coroutine.             *)
(*                                                                         *)
(* URLs are sequences of tokens (<<"http", ":", "/", "/", "h">>: a token is *)
(* a whole run of letters and digits, or one other character), page text   *)
(* is a sequence of characters, the empty string is << >> and              *)
(* concatenation is \o.  Time is counted in ticks of half a second; the    *)
(* clock never runs backwards.                                             *)
(***************************************************************************)
EXTENDS Integers, Sequences, FiniteSets, TLC

\* ------------------------------------------------------------- bounds
MaxSeqRequests == 5
MaxPools == 2
MaxItems == 23
MaxAnchors == 24
MaxCommands == 2
MaxChecks == 4

\* ---------------------------------------------------------- constants
MAX_CONTENT_LENGTH == 10 * 1024 * 1024

\* 1.0 s, in ticks.
min_request_interval == 2

\* The per-user limit of 5 s, in ticks.
RATE_LIMIT == 10

\* The wordlists, cut to their first entries.
COMMON_DIRS == << <<"admin">>, <<"administrator">> >>

COMMON_FILES == << <<"robots.txt">> >>

wordlist == COMMON_DIRS \o COMMON_FILES

\* DirectoryView.page_size.
page_size == 10

\* The view's timeout of 300 s, in steps of 100 s of idle time.
ViewTimeout == 3

\* The cut of links[:20] and files[:20].
ListCap == 20

\* The status codes discover keeps.
FoundStatuses == {200, 301, 302, 403}

\* ------------------------------------------------------------ strings
Min(a, b) == IF a < b THEN a ELSE b

\* How Python reads a slice index of a sequence of n elements: a negative
\* one counts from the end, and both ends are clamped to 0..n.
SliceIndex(i, n) ==
    IF i < 0 THEN (IF i + n < 0 THEN 0 ELSE i + n) ELSE Min(i, n)

\* s[start:end] of Python.
Slice(s, start, end) ==
    SubSeq(s, SliceIndex(start, Len(s)) + 1, SliceIndex(end, Len(s)))

\* The string as it is, trailing characters and all.
rstripNone(s, c) == s

RECURSIVE rstrip(_, _)
rstrip(s, c) ==
    IF Len(s) > 0 /\ s[Len(s)] = c THEN rstrip(SubSeq(s, 1, Len(s) - 1), c) ELSE s

SchemeWords == {"http", "https", "ftp", "mailto"}

\* urlparse(url).scheme: the text before the first ":" when it is a scheme name.
UrlScheme(url) ==
    IF Len(url) >= 2 /\ url[2] = ":" /\ url[1] \in SchemeWords THEN url[1] ELSE ""

UrlAfterScheme(url) ==
    IF UrlScheme(url) = "" THEN url ELSE SubSeq(url, 3, Len(url))

RECURSIVE UpToSlash(_)
UpToSlash(s) ==
    IF s = << >> \/ s[1] = "/" THEN << >> ELSE <<s[1]>> \o UpToSlash(Tail(s))

\* urlparse(url).netloc: what follows "//", up to the next "/".
UrlNetloc(url) ==
    LET rest == UrlAfterScheme(url) IN
    IF Len(rest) >= 2 /\ rest[1] = "/" /\ rest[2] = "/"
    THEN UpToSlash(SubSeq(rest, 3, Len(rest)))
    ELSE << >>

is_valid_url(url) ==
    UrlScheme(url) \in {"http", "https"} /\ UrlNetloc(url) # << >>

RECURSIVE UpToAny(_, _)
UpToAny(s, stops) ==
    IF s = << >> \/ s[1] \in stops THEN << >>
    ELSE <<s[1]>> \o UpToAny(Tail(s), stops)

\* scheme://netloc of an absolute URL.
UrlOrigin(url) == <<UrlScheme(url), ":", "/", "/">> \o UrlNetloc(url)

\* urlparse(url).path: what follows the netloc, up to the query or fragment.
UrlPath(url) ==
    LET rest == UrlAfterScheme(url)
        after == IF Len(rest) >= 2 /\ rest[1] = "/" /\ rest[2] = "/"
                 THEN SubSeq(rest, 3 + Len(UrlNetloc(url)), Len(rest))
                 ELSE rest
    IN UpToAny(after, {"?", "#"})

\* The path up to and including its last "/".
RECURSIVE DirOf(_)
DirOf(path) ==
    IF path = << >> \/ path[Len(path)] = "/" THEN path
    ELSE DirOf(SubSeq(path, 1, Len(path) - 1))

\* urllib.parse.urljoin(base, href) for an absolute http(s) base without
\* query or fragment and an href without dot segments.
UrlJoin(base, href) ==
    IF href = << >> THEN base
    ELSE IF UrlScheme(href) # "" THEN href
    ELSE IF Len(href) >= 2 /\ href[1] = "/" /\ href[2] = "/"
         THEN <<UrlScheme(base), ":">> \o href
    ELSE IF href[1] = "/" THEN UrlOrigin(base) \o href
    ELSE IF href[1] \in {"?", "#"} THEN UrlOrigin(base) \o UrlPath(base) \o href
    ELSE UrlOrigin(base)
             \o (IF DirOf(UrlPath(base)) = << >> THEN <<"/">> ELSE DirOf(UrlPath(base)))
             \o href

RECURSIVE lstrip(_, _)
lstrip(s, c) == IF Len(s) > 0 /\ s[1] = c THEN lstrip(Tail(s), c) ELSE s

\* str.strip(), the white space being blanks.
strip(s) == rstrip(lstrip(s, " "), " ")

\* Names for the paths of a found list or of a page's anchors, one each.
PathWords ==
    << "p01", "p02", "p03", "p04", "p05", "p06", "p07", "p08", "p09", "p10",
       "p11", "p12", "p13", "p14", "p15", "p16", "p17", "p18", "p19", "p20",
       "p21", "p22", "p23", "p24", "p25" >>

\* The tokens used here that are one to four letters or digits.
ShortWords ==
    {"a", "b", "c", "f", "h", "p", "x", "1", "gz", "pdf", "tar", "txt", "com",
     "top", "sub", "http", "ftp"} \cup {PathWords[i] : i \in DOMAIN PathWords}

\* re.search(r"\.[a-z0-9]{1,4}$", s, re.I): s ends in a dot and one to four
\* letters or digits.
EndsInExtension(s) ==
    Len(s) >= 2 /\ s[Len(s) - 1] = "." /\ s[Len(s)] \in ShortWords

\* --------------------------------------------------------- the tasks
\* One task per wordlist entry (the probes discover launches, in wordlist
\* order) and one for a caller that issues its requests back-to-back.
Probes == DOMAIN wordlist

SeqTask == Len(wordlist) + 1

\* The commands are numbered as they come in; each has a task of its own
\* for its call of fetch_page or analyze_dir.
Handlers == 1..MaxCommands

HandlerTask(k) == Len(wordlist) + k

Tasks == Probes \cup {SeqTask} \cup {HandlerTask(k) : k \in Handlers}

\* time.time() at start-up is far more than one interval, and far more
\* than RATE_LIMIT, after 0, the initial last_request_time and the default
\* of user_last_request.
StartClock == RATE_LIMIT

\* How far the clock is followed: long enough for the back-to-back caller
\* to send all its requests, and two intervals for one call of discover.
MaxClock == StartClock + (MaxSeqRequests - 1) * min_request_interval

DiscoverMaxClock == StartClock + 2 * min_request_interval

\* ------------------------------------------------- the environment
\* Base origins handed to discover.
Bases ==
    { <<"http", ":", "/", "/", "h">>,
      <<"http", ":", "/", "/", "h", "/">>,
      <<"ftp", ":", "/", "/", "h">>,
      <<"h">> }

SeqUrls == { <<"http", ":", "/", "/", "h", "/", "p">> }

SeqOps == {"head", "get_raw", "fetch_page"}

RedirectedUrl == <<"http", ":", "/", "/", "h", "/", "moved">>

\* What the server may answer to a HEAD.
HeadResponses(url) ==
    [status : {200, 301, 302, 403, 404}, url : {url}, type : {<<"text/html">>}]

\* Response bodies: a byte count, the text outside the anchor tags, byte by
\* byte (one of them not UTF-8), and the anchor tags in document order.
Bodies ==
    [len : {1, MAX_CONTENT_LENGTH, MAX_CONTENT_LENGTH + 1},
     text : { <<"I", "n", "d", "e", "x", " ", "o", "f", " ", "/", "u", "p", "l", "o", "a", "d", "s">>,
              <<"h", "e", "l", "l", "o", "\\xff", "w", "o", "r", "l", "d">> },
     anchors : { << >> }]

\* What the server may answer to a GET.
GetResponses(url) ==
    [status : {200}, url : {url, RedirectedUrl},
     headers : {[server |-> <<"nginx">>]}, body : Bodies]

\* What a request may raise: an aiohttp.ClientError (connection refused,
\* DNS) or another Exception, here asyncio.TimeoutError, which aiohttp
\* raises with no message when the total timeout runs out.
Failures ==
    { [cls |-> "ClientError", msg |-> <<"Cannot connect to host">>],
      [cls |-> "TimeoutError", msg |-> << >>] }

\* What creating the ClientSession may raise.
SessionFailure == [cls |-> "RuntimeError", msg |-> <<"no running event loop">>]

\* ------------------------------------------------ result dictionaries
NoResult == [ok |-> FALSE, pending |-> TRUE]

\* The two except clauses of head and get_raw.
ErrResult(e, url) ==
    IF e.cls = "ClientError"
    THEN [ok |-> FALSE, error |-> <<"HTTP error: ">> \o e.msg, url |-> url]
    ELSE [ok |-> FALSE, error |-> e.msg, url |-> url]

HeadResult(r) ==
    [ok |-> TRUE, url |-> r.url, status |-> r.status, type |-> r.type]

\* The size test with >= for >.
TooLargeInclusive(body) == body.len >= MAX_CONTENT_LENGTH

TooLarge(body) == body.len > MAX_CONTENT_LENGTH

GetResult(r) ==
    IF TooLarge(r.body)
    THEN [ok |-> FALSE, error |-> <<"Content too large">>, status |-> r.status]
    ELSE [ok |-> TRUE, url |-> r.url, status |-> r.status,
          headers |-> r.headers, body |-> r.body]

\* bytes.decode("utf-8", errors="ignore"): undecodable bytes are dropped.
Decode(body) == SelectSeq(body.text, LAMBDA w : w # "\\xff")

UpperLetters ==
    <<"A", "B", "C", "D", "E", "F", "G", "H", "I", "J", "K", "L", "M", "N", "O", "P", "Q", "R", "S", "T", "U", "V", "W", "X", "Y", "Z">>

LowerLetters ==
    <<"a", "b", "c", "d", "e", "f", "g", "h", "i", "j", "k", "l", "m", "n", "o", "p", "q", "r", "s", "t", "u", "v", "w", "x", "y", "z">>

\* Text left in the case it came in.
LowerIdentity(c) == c

\* The lower-case letter of every upper-case one.
LowerOf ==
    [c \in {UpperLetters[i] : i \in DOMAIN UpperLetters} |->
        LowerLetters[CHOOSE i \in DOMAIN UpperLetters : UpperLetters[i] = c]]

\* str.lower(), a character at a time.
Lower(c) == IF c \in DOMAIN LowerOf THEN LowerOf[c] ELSE c

DIRECTORY_INDICATORS ==
    { <<"i", "n", "d", "e", "x", " ", "o", "f">>,
      <<"d", "i", "r", "e", "c", "t", "o", "r", "y", " ", "l", "i", "s", "t", "i", "n", "g">>,
      <<"p", "a", "r", "e", "n", "t", " ", "d", "i", "r", "e", "c", "t", "o", "r", "y">>,
      <<"n", "a", "m", "e">>, <<"s", "i", "z", "e">>,
      <<"m", "o", "d", "i", "f", "i", "e", "d">>,
      <<"<", "t", "i", "t", "l", "e", ">", "i", "n", "d", "e", "x", " ", "o", "f">>,
      <<"a", "p", "a", "c", "h", "e">>,
      <<"n", "g", "i", "n", "x">> }

Contains(s, k) ==
    \E i \in 1..(Len(s) - Len(k) + 1) : SubSeq(s, i, i + Len(k) - 1) = k

is_dir_listing(html) ==
    LET low == [i \in DOMAIN html |-> Lower(html[i])] IN
    \E k \in DIRECTORY_INDICATORS : Contains(low, k)

FetchPageResult(res) ==
    IF ~res.ok THEN res
    ELSE LET html == Decode(res.body) IN
         [ok |-> TRUE, url |-> res.url, status |-> res.status,
          headers |-> res.headers, body |-> res.body,
          soup |-> [parsed |-> html, a |-> res.body.anchors], text |-> html,
          is_dir |-> is_dir_listing(html)]

\* ------------------------------------------------ the listing analyzer
\* An anchor tag of a page, with or without an href attribute.
Anchor(h) == [has_href |-> TRUE, href |-> h]

BareAnchor == [has_href |-> FALSE, href |-> << >>]

\* Pages: the hrefs the spec names, hrefs with a query or a fragment, an
\* absolute one, relative ones, and long lists that are mostly links or
\* mostly files, with one of the other kind at every eighth place.
NamedAnchors ==
    << Anchor(<<"/", "a", "/", "b", ".", "pdf">>),
       Anchor(<<"/", "a", "/", "b", "/">>),
       BareAnchor,
       Anchor(<<"/", "a", "/", "b">>),
       Anchor(<<"mailto", ":", "x">>),
       Anchor(<<"/", "a", "/", "b", ".", "tar", ".", "gz">>),
       Anchor(<<"/", "a", "/", "b", ".", "config">>),
       Anchor(<<" ", "/", "a", "/", "c", ".", "txt", " ">>) >>

QueryAnchors ==
    << Anchor(<<"/", "a", "/", "b", ".", "pdf", "?", "x", "=", "1">>),
       Anchor(<<"/", "a", "/", "b", ".", "pdf", "#", "top">>),
       Anchor(<<"http", ":", "/", "/", "h", ".", "com">>),
       Anchor(<<"/", "index", "?", "f", "=", "a", ".", "pdf">>) >>

RelativeAnchors ==
    << Anchor(<<"b", ".", "pdf">>), Anchor(<<"sub", "/">>) >>

ManyAnchors(kind, n) ==
    [i \in 1..n |->
        IF (kind = "files") = (i % 8 # 0)
        THEN Anchor(<<PathWords[i], ".", "pdf">>)
        ELSE Anchor(<<PathWords[i], "/">>)]

ListingText == <<"I", "n", "d", "e", "x", " ", "o", "f", " ", "/", "u", "p", "l", "o", "a", "d", "s">>

ListingTextUpper == <<"I", "N", "D", "E", "X", " ", "O", "F", " ", "/", "U", "P", "L", "O", "A", "D", "S">>

ArticleText == <<"A", "n", " ", "a", "r", "t", "i", "c", "l", "e", " ", "o", "n", " ", "c", "r", "a", "w", "l", "i", "n", "g", ".">>

ArticleTextMeta ==
    <<"<", "m", "e", "t", "a", " ", "n", "a", "m", "e", "=", "v", "i", "e", "w", "p", "o", "r", "t", ">", "A", "n", " ", "a", "r", "t", "i", "c", "l", "e", " ", "o", "n", " ", "c", "r", "a", "w", "l", "i", "n", "g", ".">>

ListingBodies ==
    { [len |-> 1, text |-> ListingText, anchors |-> NamedAnchors],
      [len |-> 1, text |-> ListingTextUpper, anchors |-> RelativeAnchors],
      [len |-> 1, text |-> ArticleText, anchors |-> QueryAnchors],
      [len |-> 1, text |-> ArticleTextMeta, anchors |-> << >>] }
    \cup { [len |-> 1, text |-> ArticleText, anchors |-> ManyAnchors(kind, n)] :
               kind \in {"links", "files"}, n \in {ListCap, MaxAnchors} }

AnalyzeUrls == { <<"http", ":", "/", "/", "h", "/", "p">> }

\* Where a redirect of the page may end: in another directory.
MovedUrl == <<"http", ":", "/", "/", "h", "/", "moved", "/">>

\* What the server may answer to the GET of analyze_dir.
ListingResponses(url) ==
    [status : {200}, url : {url, MovedUrl},
     headers : {[server |-> <<"nginx">>]}, body : ListingBodies]

\* The lists without their cut.
CapNone(s) == s

\* links[:20], files[:20].
Cap(s) == Slice(s, 0, ListCap)

\* The anchors with an href, each with its stripped href and its target
\* resolved against base, the targets that are no http(s) URL left out.
Targets(anchors, base) ==
    LET with == SelectSeq(anchors, LAMBDA a : a.has_href)
        all == [i \in DOMAIN with |->
                   [href |-> strip(with[i].href),
                    full |-> UrlJoin(base, strip(with[i].href))]]
    IN SelectSeq(all, LAMBDA t : is_valid_url(t.full))

IsFile(t) == EndsInExtension(t.href)

Fulls(ts) == [i \in DOMAIN ts |-> ts[i].full]

analyze_dir(url, res) ==
    IF ~res.ok THEN res
    ELSE LET ts == Targets(res.soup.a, url)
             files == Fulls(SelectSeq(ts, IsFile))
             links == Fulls(SelectSeq(ts, LAMBDA t : ~IsFile(t)))
         IN [ok |-> TRUE, url |-> res.url, status |-> res.status,
             is_listing |-> res.is_dir, server |-> res.headers.server,
             links |-> Cap(links), files |-> Cap(files)]

\* ------------------------------------------------------ the paginator
ItemStatuses == <<200, 301, 302, 403>>

ViewBase == <<"http", ":", "/", "/", "h">>

\* A found list of n entries, as discover reports it: the results of head
\* that were kept, in order.
FoundItem(i) ==
    HeadResult([url |-> ViewBase \o <<"/", PathWords[i]>>,
                status |-> ItemStatuses[(i % Len(ItemStatuses)) + 1],
                type |-> <<"text/html">>])

FoundList(n) == [i \in 1..n |-> FoundItem(i)]

\* s.replace(old, new): every occurrence of old, left to right.
RECURSIVE Replace(_, _, _)
Replace(s, old, new) ==
    IF old = << >> \/ Len(s) < Len(old) THEN s
    ELSE IF SubSeq(s, 1, Len(old)) = old
         THEN new \o Replace(SubSeq(s, Len(old) + 1, Len(s)), old, new)
         ELSE <<s[1]>> \o Replace(Tail(s), old, new)

\* sep.join(lines).
RECURSIVE Join(_, _)
Join(lines, sep) ==
    IF lines = << >> THEN << >>
    ELSE IF Len(lines) = 1 THEN lines[1]
    ELSE lines[1] \o <<sep>> \o Join(Tail(lines), sep)

\* str(status).
StatusText(n) ==
    CASE n = 200 -> "200" [] n = 301 -> "301" [] n = 302 -> "302"
      [] n = 403 -> "403" [] OTHER -> "404"

\* The constructor with max_pages rounded down.
DirectoryViewFloor(base_url, found) ==
    [made |-> TRUE, base_url |-> base_url, found |-> found,
     page_size |-> page_size, current_page |-> 0,
     max_pages |-> Len(found) \div page_size,
     disabled |-> FALSE, idle |-> 0, stopped |-> FALSE, dropped |-> FALSE,
     shown |-> [by |-> "none", kind |-> "none"]]

\* The constructor, and the state discord.py keeps for a view: how long it
\* has been idle, whether it has timed out (stopped, and then out of the
\* view store) and how many interactions reached it after that.
DirectoryView(base_url, found) ==
    [made |-> TRUE, base_url |-> base_url, found |-> found,
     page_size |-> page_size, current_page |-> 0,
     max_pages |-> (Len(found) + page_size - 1) \div page_size,
     disabled |-> FALSE, idle |-> 0, stopped |-> FALSE, dropped |-> FALSE,
     shown |-> [by |-> "none", kind |-> "none"]]

\* The window of the current page.
page_items(v) ==
    LET start == v.current_page * v.page_size
        end == start + v.page_size
    IN Slice(v.found, start, end)

\* One line of a page: the path between backquotes (written ^ here), an
\* arrow and the status.
PageLine(d, base_url) ==
    <<"^">> \o Replace(d.url, base_url, << >>) \o <<"^", " -> ", StatusText(d.status)>>

_get_page_content(v) ==
    LET items == page_items(v)
        lines == [i \in DOMAIN items |-> PageLine(items[i], v.base_url)]
        text == Join(lines, "\n")
    IN IF text = << >> THEN <<"(none)">> ELSE text

\* f"Page {current_page + 1}/{max_pages}\n{content}", as its three parts.
\* The cut to 2000 characters keeps all of a page of ten such lines.
PageMessage(v) ==
    [page |-> v.current_page + 1, of |-> v.max_pages, content |-> _get_page_content(v)]

\* The three button callbacks: what they leave in the view and what they
\* answer the interaction with.
list_paths(v) ==
    [v EXCEPT !.shown = [by |-> "list_paths", kind |-> "send", msg |-> PageMessage(v)]]

\* The test of prev_page with >= for >.
CanRetreatInclusive(v) == v.current_page >= 0

CanRetreat(v) == v.current_page > 0

prev_page(v) ==
    IF CanRetreat(v)
    THEN LET w == [v EXCEPT !.current_page = @ - 1] IN
         [w EXCEPT !.shown = [by |-> "prev_page", kind |-> "edit", msg |-> PageMessage(w)]]
    ELSE [v EXCEPT !.shown = [by |-> "prev_page", kind |-> "defer"]]

\* The test of next_page with max_pages for max_pages - 1.
CanAdvancePastEnd(v) == v.current_page < v.max_pages

CanAdvance(v) == v.current_page < v.max_pages - 1

next_page(v) ==
    IF CanAdvance(v)
    THEN LET w == [v EXCEPT !.current_page = @ + 1] IN
         [w EXCEPT !.shown = [by |-> "next_page", kind |-> "edit", msg |-> PageMessage(w)]]
    ELSE [v EXCEPT !.shown = [by |-> "next_page", kind |-> "defer"]]

Buttons == {"list_paths", "prev_page", "next_page"}

Callback(b, v) ==
    CASE b = "list_paths" -> list_paths(v)
      [] b = "prev_page" -> prev_page(v)
      [] OTHER -> next_page(v)

\* --------------------------------------------------------------- state
VARIABLES
    clock,              \* time.time(), in ticks
    last_request_time,  \* WebScraper.last_request_time
    session,            \* WebScraper.session: 0 is None, else an index of pools
    pools,              \* every ClientSession created so far: "open" or "closed"
    task,               \* the head / get_raw coroutines, by task
    disc,               \* the one call of discover
    arrival,            \* the probes in the order they finished
    closer,             \* the call of close: "idle" or "closing"
    minGap,             \* the least time between two successive dispatches,
                        \* capped at one interval
    headCalls,          \* calls of head so far
    seqLog,             \* the dispatches of the back-to-back caller: how many,
                        \* the time of the first and the time of the latest
    view,               \* the DirectoryView on display, if any
    bot                 \* the command layer: user_last_request and the command
                        \* being handled

scraperVars ==
    <<clock, last_request_time, session, pools, task, disc, arrival, closer,
      minGap, headCalls, seqLog>>

glueVars == <<view, bot>>

vars == <<scraperVars, glueVars>>

\* A task: where its coroutine stands, the call it runs, when its sleep ends,
\* what the network gave it (got) and what it returned (res).
NoAnswer == [kind |-> "none"]

IdleTask ==
    [pc |-> "idle", op |-> "none", url |-> << >>, wake |-> 0, got |-> NoAnswer,
     res |-> NoResult]

NoReport == [ok |-> FALSE, pending |-> TRUE]

\* discover has not been called.  ahead is the loop's: the coroutines that
\* were in the ready queue before the probes and have run since gather
\* made the probes.
IdleDiscover ==
    [pc |-> "idle", arg |-> << >>, base |-> << >>, gate0 |-> 0, report |-> NoReport,
     ahead |-> {}]

\* No DirectoryView has been built.
NoView == [made |-> FALSE]

Users == {"u1", "u2"}

\* A command handler: where it stands, how it was invoked (as a prefix
\* command or through its slash wrapper), its command and URL and its
\* answer.
NoHandler ==
    [pc |-> "idle", via |-> "none", cmd |-> "none", url |-> << >>,
     reply |-> "none"]

\* user_last_request is empty (every user reads as 0) and no command has
\* come in.  calls is the log of the calls of check_rate_limit, for the
\* properties.
NoCommand ==
    [handled |-> 0, user_last_request |-> [u \in Users |-> 0],
     calls |-> << >>, h |-> [k \in Handlers |-> NoHandler]]

Init ==
    /\ clock = StartClock
    /\ last_request_time = 0
    /\ session = 0
    /\ pools = << >>
    /\ task = [t \in Tasks |-> IdleTask]
    /\ disc = IdleDiscover
    /\ arrival = << >>
    /\ closer = "idle"
    /\ minGap = min_request_interval
    /\ headCalls = 0
    /\ seqLog = [n |-> 0, first |-> 0, latest |-> 0]
    /\ view = NoView
    /\ bot = NoCommand

\* gather has made a task of every probe and none has run.  The loop's
\* ready queue is first-in first-out: the new tasks are at its end, behind
\* the callbacks that were ready before them.
Window == \A i \in Probes : task[i].pc = "created"

\* The first of the new tasks has run and the last has not.  They sit next
\* to each other in the ready queue, so nothing else runs between their
\* first segments.
Launching == ~Window /\ \E i \in Probes : task[i].pc = "created"

\* The coroutine that calls close.
Closer == 0

\* Coroutine c, named by its task, may run a segment.  Ahead of the new
\* tasks it runs one at most: what it awaits next is ready only at a later
\* turn of the loop, behind them.
MayRun(c) == ~Launching /\ (Window => c \notin disc.ahead)

\* discover as coroutine c's segment leaves it.
Ran(c) == IF Window THEN [disc EXCEPT !.ahead = @ \cup {c}] ELSE disc

\* ---------------------------------------------------- WebScraper._session
\* _session without its test of session.closed.
NeedPoolNoneOnly == session = 0

NeedPool == session = 0 \/ pools[session] = "closed"

\* ------------------------------------------------- WebScraper._rate_limit

Elapsed == clock - last_request_time

\* The gate with its comparison off by one tick.
MustWaitOffByOne == Elapsed < min_request_interval - 1

MustWait == Elapsed < min_request_interval

\* The rest of head / get_raw once the gate is passed: stamp the dispatch
\* time, take the session (creating it when there is none open; creating
\* may raise) and send the request.
PassGate(t, tk) ==
    /\ last_request_time' = clock
    /\ minGap' = Min(minGap, Elapsed)
    /\ seqLog' = IF t = SeqTask
                  THEN [n |-> seqLog.n + 1,
                        first |-> IF seqLog.n = 0 THEN clock ELSE seqLog.first,
                        latest |-> clock]
                  ELSE seqLog
    /\ IF NeedPool
       THEN \/ /\ pools' = Append(pools, "open")
               /\ session' = Len(pools) + 1
               /\ task' = [task EXCEPT ![t] = [tk EXCEPT !.pc = "inflight", !.wake = 0]]
               /\ arrival' = arrival
            \/ /\ UNCHANGED <<pools, session>>
               /\ arrival' = IF t \in Probes THEN Append(arrival, t) ELSE arrival
               /\ task' = [task EXCEPT ![t] =
                      [tk EXCEPT !.pc = "done", !.wake = 0,
                                 !.got = [kind |-> "raised", e |-> SessionFailure],
                                 !.res = ErrResult(SessionFailure, tk.url)]]
       ELSE /\ UNCHANGED <<pools, session, arrival>>
            /\ task' = [task EXCEPT ![t] = [tk EXCEPT !.pc = "inflight", !.wake = 0]]

\* The first segment of head / get_raw: the rate gate up to its sleep, or,
\* when no sleep is due, straight through to the request.
EnterGate(t, tk) ==
    IF MustWait
    THEN /\ task' = [task EXCEPT ![t] =
                [tk EXCEPT !.pc = "sleeping",
                           !.wake = clock + (min_request_interval - Elapsed)]]
         /\ UNCHANGED <<last_request_time, minGap, seqLog, pools, session, arrival>>
    ELSE PassGate(t, tk)

\* f"{scheme}://{netloc}".
get_base(url) == UrlOrigin(url)

\* build_dirs_embed: a view only for a report with something found.
build_dirs_view(base, result) ==
    IF result.ok /\ result.found # << >>
    THEN DirectoryView(base, result.found)
    ELSE NoView

\* The handlers awaiting the page that task t fetches.
Handling(t) ==
    {k \in Handlers : /\ HandlerTask(k) = t
                      /\ bot.h[k].pc = "running"
                      /\ bot.h[k].cmd # "crawl_dirs"}

\* The handlers awaiting discover.
Discovering ==
    {k \in Handlers : bot.h[k].pc = "running" /\ bot.h[k].cmd = "crawl_dirs"}

Replied(ks) ==
    [bot EXCEPT !.h = [k \in Handlers |->
        IF k \in ks THEN [bot.h[k] EXCEPT !.pc = "replied", !.reply = "embed"]
        ELSE bot.h[k]]]

\* The rest of a command handler's segment once its scraper call has
\* returned: it sends its answer.
AfterFetch(t) ==
    IF Handling(t) # {} /\ task'[t].pc = "done"
    THEN /\ bot' = Replied(Handling(t))
         /\ UNCHANGED view
    ELSE UNCHANGED glueVars

AfterDiscover ==
    IF Discovering # {}
    THEN /\ bot' = Replied(Discovering)
         /\ view' = build_dirs_view(
                        get_base(bot.h[CHOOSE k \in Discovering : TRUE].url),
                        disc'.report)
    ELSE UNCHANGED glueVars

\* --------------------------------------------------------------- actions
Tick(limit) ==
    /\ UNCHANGED glueVars
    /\ clock < limit
    /\ clock' = clock + 1
    /\ UNCHANGED <<last_request_time, session, pools, task, disc, arrival, closer,
                   minGap, headCalls, seqLog>>

\* discover up to its await of gather: one head coroutine per wordlist entry.
DiscoverBegin(b) ==
    /\ disc.pc = "idle"
    /\ LET base == rstrip(b, "/") IN
       /\ disc' = [disc EXCEPT !.pc = "running", !.arg = b, !.base = base,
                               !.gate0 = last_request_time]
       /\ task' = [t \in Tasks |->
              IF t \in Probes
              THEN [IdleTask EXCEPT !.pc = "created", !.op = "head",
                                    !.url = base \o <<"/">> \o wordlist[t]]
              ELSE task[t]]
    /\ UNCHANGED <<clock, last_request_time, session, pools, arrival, closer,
                   minGap, headCalls, seqLog>>

DiscoverCall(b) == DiscoverBegin(b) /\ UNCHANGED glueVars

\* A probe's first segment; the loop runs the new tasks in the order gather
\* created them.
ProbeStart(i) ==
    /\ UNCHANGED glueVars
    /\ task[i].pc = "created"
    /\ \A j \in Probes : j < i => task[j].pc # "created"
    /\ headCalls' = headCalls + 1
    /\ EnterGate(i, task[i])
    /\ disc' = [disc EXCEPT !.ahead = {}]
    /\ UNCHANGED <<clock, closer>>

\* A call of head, get_raw, fetch_page or analyze_dir up to its first
\* suspension, as task t.
TaskBegin(t, op, url) ==
    /\ MayRun(t)
    /\ task[t].pc \in {"idle", "done"}
    /\ seqLog.n < MaxSeqRequests
    /\ headCalls' = IF op = "head" THEN headCalls + 1 ELSE headCalls
    /\ EnterGate(t, [IdleTask EXCEPT !.op = op, !.url = url])
    /\ disc' = Ran(t)
    /\ UNCHANGED <<clock, closer>>

\* The back-to-back caller awaits one request and then issues the next.
SeqBegin(op, url) == TaskBegin(SeqTask, op, url)

SeqCall(op, url) == SeqBegin(op, url) /\ UNCHANGED glueVars

\* asyncio.sleep returns, no earlier than asked.
Wake(t) ==
    /\ MayRun(t)
    /\ task[t].pc = "sleeping"
    /\ clock >= task[t].wake
    /\ PassGate(t, task[t])
    /\ AfterFetch(t)
    /\ disc' = Ran(t)
    /\ UNCHANGED <<clock, closer, headCalls>>

\* The URLs aiohttp sends nothing to: it raises instead.
ResponsesTo(tk) ==
    IF ~is_valid_url(tk.url) THEN {}
    ELSE IF tk.op = "head" THEN HeadResponses(tk.url)
    ELSE IF tk.op = "analyze_dir" THEN ListingResponses(tk.url)
    ELSE GetResponses(tk.url)

Returned(tk, r) ==
    IF tk.op = "head" THEN HeadResult(r)
    ELSE IF tk.op = "get_raw" THEN GetResult(r)
    ELSE IF tk.op = "fetch_page" THEN FetchPageResult(GetResult(r))
    ELSE analyze_dir(tk.url, FetchPageResult(GetResult(r)))

Finish(t, got, res) ==
    /\ task' = [task EXCEPT ![t] = [@ EXCEPT !.pc = "done", !.got = got, !.res = res]]
    /\ AfterFetch(t)
    /\ arrival' = IF t \in Probes THEN Append(arrival, t) ELSE arrival
    /\ disc' = Ran(t)
    /\ UNCHANGED <<clock, last_request_time, session, pools, closer,
                   minGap, headCalls, seqLog>>

\* The response arrives and the coroutine returns its result.
Respond(t) ==
    /\ MayRun(t)
    /\ task[t].pc = "inflight"
    /\ \E r \in ResponsesTo(task[t]) :
           Finish(t, [kind |-> "response", r |-> r], Returned(task[t], r))

\* The request raises and an except clause returns the failure.
Fail(t) ==
    /\ MayRun(t)
    /\ task[t].pc = "inflight"
    /\ \E e \in Failures :
           Finish(t, [kind |-> "raised", e |-> e], ErrResult(e, task[t].url))

\* The results collected as the probes complete.
GatheredAsCompleted == [k \in DOMAIN arrival |-> task[arrival[k]].res]

\* gather's value: the results in the order of its arguments.
Gathered == [i \in Probes |-> task[i].res]

\* The filter without its test of the status.
KeepAnyStatus(r) == r.ok

Keep(r) == r.ok /\ r.status \in FoundStatuses

\* The report counting what was found, not what was checked.
DiscoverReportCountsFound(results) ==
    [ok |-> TRUE, found |-> SelectSeq(results, Keep),
     checked |-> Len(SelectSeq(results, Keep)), base |-> disc.base]

\* A report that fails as soon as one probe has failed.
DiscoverReportFailFast(results) ==
    IF \E i \in DOMAIN results : ~results[i].ok
    THEN [ok |-> FALSE, error |-> <<"probe failed">>]
    ELSE [ok |-> TRUE, found |-> SelectSeq(results, Keep),
          checked |-> Len(wordlist), base |-> disc.base]

DiscoverReport(results) ==
    [ok |-> TRUE, found |-> SelectSeq(results, Keep), checked |-> Len(wordlist),
     base |-> disc.base]

\* A join that ends with the first probe to complete.
GatherFirstCompleted == \E i \in Probes : task[i].pc = "done"

\* await asyncio.gather(*tasks) resumes once every task has returned.
GatherJoined == \A i \in Probes : task[i].pc = "done"

\* gather returns once every probe has, and discover filters and returns.
DiscoverReturn ==
    /\ disc.pc = "running"
    /\ GatherJoined
    /\ disc' = [disc EXCEPT !.pc = "done", !.report = DiscoverReport(Gathered)]
    /\ AfterDiscover
    /\ UNCHANGED <<clock, last_request_time, session, pools, task, arrival, closer,
                   minGap, headCalls, seqLog>>

HasOpenPool == session # 0 /\ pools[session] = "open"

\* close up to its await: ClientSession.close marks the session closed
\* before it suspends.  With no open session close returns at once.  The
\* calls of close are followed while the session they close can still be
\* replaced within MaxPools sessions.
CloseCall ==
    /\ UNCHANGED glueVars
    /\ MayRun(Closer)
    /\ closer = "idle"
    /\ HasOpenPool => Len(pools) < MaxPools
    /\ IF HasOpenPool
       THEN /\ pools' = [pools EXCEPT ![session] = "closed"]
            /\ closer' = "closing"
       ELSE UNCHANGED <<pools, closer>>
    /\ disc' = Ran(Closer)
    /\ UNCHANGED <<clock, last_request_time, session, task, arrival,
                   minGap, headCalls, seqLog>>

CloseReturn ==
    /\ UNCHANGED glueVars
    /\ MayRun(Closer)
    /\ closer = "closing"
    /\ closer' = "idle"
    /\ disc' = Ran(Closer)
    /\ UNCHANGED <<clock, last_request_time, session, pools, task, arrival,
                   minGap, headCalls, seqLog>>

\* One call of discover, with close called at any time.
Next ==
    \/ Tick(DiscoverMaxClock)
    \/ \E b \in Bases : DiscoverCall(b)
    \/ \E i \in Probes : ProbeStart(i)
    \/ \E t \in Probes : Wake(t)
    \/ \E t \in Probes : Respond(t)
    \/ \E t \in Probes : Fail(t)
    \/ DiscoverReturn
    \/ CloseCall
    \/ CloseReturn

Spec == Init /\ [][Next]_vars

\* A caller that issues head / get_raw / fetch_page back-to-back, with close
\* called at any time.
NextSeq ==
    \/ Tick(MaxClock)
    \/ \E op \in SeqOps, url \in SeqUrls : SeqCall(op, url)
    \/ Wake(SeqTask)
    \/ Respond(SeqTask)
    \/ Fail(SeqTask)
    \/ CloseCall
    \/ CloseReturn

SpecSeq == Init /\ [][NextSeq]_vars

\* A caller that analyzes one page after the other, with close called at
\* any time.
NextAnalyze ==
    \/ Tick(MaxClock)
    \/ \E url \in AnalyzeUrls : SeqCall("analyze_dir", url)
    \/ Wake(SeqTask)
    \/ Respond(SeqTask)
    \/ Fail(SeqTask)
    \/ CloseCall
    \/ CloseReturn

SpecAnalyze == Init /\ [][NextAnalyze]_vars

\* -------------------------------------------------------- the commands
Commands ==
    {"crawl_dirs", "crawl_dir_analyze", "crawl_title", "crawl_links",
     "crawl_images", "crawl_meta", "crawl_text"}

\* The URLs users type: a page, and two that are no http(s) URL.
CommandUrls ==
    { <<"http", ":", "/", "/", "h", "/", "p">>,
      <<"ftp", ":", "/", "/", "h">>,
      <<"h">> }

\* check_rate_limit: the refusal, or None with the user's time stamped.
Limited(user) == clock - bot.user_last_request[user] < RATE_LIMIT

\* A handler that takes any URL.
InvalidUrlNever(url) == FALSE

\* The handlers' test "if not is_valid_url(url)".
InvalidUrl(url) == ~is_valid_url(url)

\* What of the scraper a command could touch.
ScraperState ==
    <<last_request_time, session, pools, task, [disc EXCEPT !.ahead = {}],
      arrival, minGap, headCalls, seqLog>>

\* ------------------------------------------------------- check_rate_limit
\* One second, in ticks.
Second == min_request_interval

\* int(x) of a time difference: whole seconds, rounded towards zero.
IntSeconds(d) == IF d >= 0 THEN d \div Second ELSE -((-d) \div Second)

\* check_rate_limit stamping the time of a refused call too.
check_rate_limit_stamping(user) ==
    [limited |-> Limited(user),
     wait |-> IF Limited(user)
              THEN RATE_LIMIT \div Second
                     - IntSeconds(clock - bot.user_last_request[user])
              ELSE 0,
     user_last_request |-> [bot.user_last_request EXCEPT ![user] = clock]]

\* check_rate_limit(user_id): the refusal with the seconds left to wait and
\* the table as it was, or None (limited = FALSE) with the user's time
\* stamped.
check_rate_limit(user) ==
    IF Limited(user)
    THEN [limited |-> TRUE,
          wait |-> RATE_LIMIT \div Second
                     - IntSeconds(clock - bot.user_last_request[user]),
          user_last_request |-> bot.user_last_request]
    ELSE [limited |-> FALSE, wait |-> 0,
          user_last_request |-> [bot.user_last_request EXCEPT ![user] = clock]]

\* How a command is invoked: "!crawl_title url", or "/crawl_title url",
\* whose wrapper calls the same handler with an InteractionContext.
Vias == {"prefix", "slash"}

\* "async with ctx.typing()" with an InteractionContext: typing is an
\* "async def" there, so the statement is given a coroutine and raises
\* TypeError.
TypingRaises(via) == via = "slash"

\* A command comes in: the handler up to its first await or to its end.
\* The await is the send of a refusal, of "Scanning ..." (crawl_dirs) or of
\* the typing indicator; through a slash wrapper every handler but
\* crawl_dirs gets no further than "async with ctx.typing()" and ends there.
\* A second crawl_dirs is not followed while one is under way.
Command(via, cmd, user, url) ==
    /\ bot.handled < MaxCommands
    /\ MayRun(HandlerTask(bot.handled + 1))
    /\ cmd = "crawl_dirs" =>
          /\ disc.pc = "idle"
          /\ \A j \in Handlers : bot.h[j].cmd # "crawl_dirs"
    /\ LET k == bot.handled + 1
           r == check_rate_limit(user)
           asked == [NoHandler EXCEPT !.via = via, !.cmd = cmd, !.url = url]
           outcome ==
               IF r.limited
               THEN [asked EXCEPT !.pc = "refused", !.reply = "wait"]
               ELSE IF InvalidUrl(url)
               THEN [asked EXCEPT !.pc = "refused", !.reply = "Invalid URL."]
               ELSE IF TypingRaises(via) /\ cmd # "crawl_dirs"
               THEN NoHandler
               ELSE [asked EXCEPT !.pc = "accepted"]
       IN bot' = [bot EXCEPT !.handled = k,
                             !.user_last_request = r.user_last_request,
                             !.h[k] = outcome]
    /\ disc' = Ran(HandlerTask(bot.handled + 1))
    /\ UNCHANGED <<clock, last_request_time, session, pools, task, arrival,
                   closer, minGap, headCalls, seqLog, view>>

\* crawl_dirs through its slash wrapper, once "Scanning ..." is sent: the
\* handler ends with the TypeError and discover is never called.
SlashRaise(k) ==
    /\ MayRun(HandlerTask(k))
    /\ bot.h[k].pc = "accepted"
    /\ TypingRaises(bot.h[k].via)
    /\ bot' = [bot EXCEPT !.h[k] = NoHandler]
    /\ disc' = Ran(HandlerTask(k))
    /\ UNCHANGED <<clock, last_request_time, session, pools, task, arrival,
                   closer, minGap, headCalls, seqLog, view>>

\* The handler calls the scraper: discover(get_base(url)), analyze_dir(url)
\* or fetch_page(url), up to the call's first suspension.
CommandRun(k) ==
    /\ bot.h[k].pc = "accepted"
    /\ ~TypingRaises(bot.h[k].via)
    /\ IF bot.h[k].cmd = "crawl_dirs"
       THEN /\ DiscoverBegin(get_base(bot.h[k].url))
            /\ bot' = [bot EXCEPT !.h[k].pc = "running"]
       ELSE /\ TaskBegin(HandlerTask(k),
                         IF bot.h[k].cmd = "crawl_dir_analyze" THEN "analyze_dir"
                                                               ELSE "fetch_page",
                         bot.h[k].url)
            /\ bot' = IF task'[HandlerTask(k)].pc = "done"
                      THEN [bot EXCEPT !.h[k].pc = "replied", !.h[k].reply = "embed"]
                      ELSE [bot EXCEPT !.h[k].pc = "running"]
    /\ UNCHANGED view

\* The send of the answer or of the refusal returns and the handler exits:
\* its result and the coroutines it awaited are dropped.
CommandDone(k) ==
    /\ MayRun(HandlerTask(k))
    /\ bot.h[k].pc \in {"replied", "refused"}
    /\ bot' = [bot EXCEPT !.h[k] = NoHandler]
    /\ IF bot.h[k].pc = "refused"
       THEN /\ disc' = Ran(HandlerTask(k))
            /\ UNCHANGED <<task, arrival>>
       ELSE IF bot.h[k].cmd = "crawl_dirs"
       THEN /\ task' = [t \in Tasks |-> IF t \in Probes THEN IdleTask ELSE task[t]]
            /\ disc' = IdleDiscover
            /\ arrival' = << >>
       ELSE /\ task' = [task EXCEPT ![HandlerTask(k)] = IdleTask]
            /\ disc' = Ran(HandlerTask(k))
            /\ arrival' = arrival
    /\ UNCHANGED <<clock, last_request_time, session, pools, closer, minGap,
                   headCalls, seqLog, view>>

\* How far the clock is followed for the commands: one interval.
CommandMaxClock == StartClock + min_request_interval

\* No command is being handled.
Quiet == \A k \in Handlers : bot.h[k].pc = "idle"

\* Users sending commands, each after the one before has been handled.
NextCmd ==
    \/ Tick(CommandMaxClock)
    \/ \E via \in Vias, cmd \in Commands, user \in Users, url \in CommandUrls :
          Quiet /\ Command(via, cmd, user, url)
    \/ \E k \in Handlers : CommandRun(k)
    \/ \E k \in Handlers : SlashRaise(k)
    \/ \E k \in Handlers : CommandDone(k)
    \/ \E i \in Probes : ProbeStart(i)
    \/ \E t \in Tasks : Wake(t)
    \/ \E t \in Tasks : Respond(t)
    \/ \E t \in Tasks : Fail(t)
    \/ DiscoverReturn

SpecCmd == Init /\ [][NextCmd]_vars

\* A command that calls discover and one that fetches a page.
OverlapCommands == {"crawl_dirs", "crawl_title"}

\* Users sending commands while earlier ones are still being handled.
NextOverlap ==
    \/ Tick(CommandMaxClock)
    \/ \E via \in Vias, cmd \in OverlapCommands, user \in Users, url \in CommandUrls :
          Command(via, cmd, user, url)
    \/ \E k \in Handlers : CommandRun(k)
    \/ \E k \in Handlers : SlashRaise(k)
    \/ \E k \in Handlers : CommandDone(k)
    \/ \E i \in Probes : ProbeStart(i)
    \/ DiscoverReturn
    \/ \E t \in Tasks : Wake(t)
    \/ \E t \in Tasks : Respond(t)
    \/ \E t \in Tasks : Fail(t)

SpecOverlap == Init /\ [][NextOverlap]_vars

\* ------------------------------------- check_rate_limit called alone
\* A user's command reaches check_rate_limit.
CheckRateLimit(user) ==
    /\ Len(bot.calls) < MaxChecks
    /\ LET r == check_rate_limit(user) IN
         bot' = [bot EXCEPT
                    !.user_last_request = r.user_last_request,
                    !.calls = Append(@, [user |-> user, at |-> clock,
                                         ok |-> ~r.limited, wait |-> r.wait])]
    /\ UNCHANGED <<scraperVars, view>>

\* How far the clock is followed for the rate limit: one RATE_LIMIT.
RateMaxClock == StartClock + RATE_LIMIT

\* Users calling at any times.
NextRate ==
    \/ Tick(RateMaxClock)
    \/ \E user \in Users : CheckRateLimit(user)

SpecRate == Init /\ [][NextRate]_vars

\* ------------------------------------------- the paginator on display
\* build_dirs_embed on a report of n found paths, and crawl_dirs sends what
\* it built: a view when n > 0, none for an empty report.
NewView(n) ==
    /\ ~view.made
    /\ view' = build_dirs_view(ViewBase,
                    [ok |-> TRUE, found |-> FoundList(n),
                     checked |-> Len(wordlist), base |-> ViewBase])
    /\ UNCHANGED <<scraperVars, bot>>

\* A view that never stops listening.
DispatchableForever(v) == TRUE

\* discord.py dispatches an interaction to a view until the view times out.
Dispatchable(v) == ~v.stopped

\* The user presses a button.  A dispatched interaction runs the callback
\* and restarts the view's timeout; one for a view that timed out is dropped.
Click(b) ==
    /\ view.made
    /\ view' = IF Dispatchable(view)
               THEN [Callback(b, view) EXCEPT !.idle = 0]
               ELSE [view EXCEPT !.dropped = TRUE]
    /\ UNCHANGED <<scraperVars, bot>>

\* Time passes with no interaction.
ViewIdle ==
    /\ view.made
    /\ ~view.stopped
    /\ view.idle < ViewTimeout
    /\ view' = [view EXCEPT !.idle = @ + 1]
    /\ UNCHANGED <<scraperVars, bot>>

\* The timeout fires: discord.py stops the view and schedules on_timeout.
ViewExpire ==
    /\ view.made
    /\ ~view.stopped
    /\ view.idle = ViewTimeout
    /\ view' = [view EXCEPT !.stopped = TRUE]
    /\ UNCHANGED <<scraperVars, bot>>

\* on_timeout sets disabled on every child of the view.
on_timeout ==
    /\ view.made
    /\ view.stopped
    /\ ~view.disabled
    /\ view' = [view EXCEPT !.disabled = TRUE]
    /\ UNCHANGED <<scraperVars, bot>>

\* One discovery result on display, with the user pressing buttons.
NextPage ==
    \/ \E n \in 0..MaxItems : NewView(n)
    \/ \E b \in Buttons : Click(b)
    \/ ViewIdle
    \/ ViewExpire
    \/ on_timeout

SpecPage == Init /\ [][NextPage]_vars

\* ---------------------------------------------------------------- claims
Found == disc.report.found

Caller == task[SeqTask]

\* C1 (as claimed): any two dispatches through the wrapper, those of
\* concurrent probes included, are at least min_request_interval apart.
C1_Spacing == minGap >= min_request_interval

\* C2: the k-th dispatch of a back-to-back caller is no earlier than its
\* first dispatch plus (k-1) intervals; five requests take four intervals.
C2_BackToBack ==
    seqLog.n >= 1 =>
        seqLog.latest >= seqLog.first + (seqLog.n - 1) * min_request_interval

C2_Witness ==
    /\ seqLog.n = 5
    /\ seqLog.latest = seqLog.first + 4 * min_request_interval

\* C3: every entry of found is the result of a probe that succeeded with
\* status 200, 301, 302 or 403.
C3_FoundWhitelisted ==
    disc.pc = "done" =>
        \A k \in DOMAIN Found :
            /\ Found[k].ok
            /\ Found[k].status \in {200, 301, 302, 403}
            /\ \E i \in Probes : task[i].res = Found[k]

C3_Witness ==
    /\ disc.pc = "done"
    /\ Len(Found) >= 1
    /\ \E i \in Probes : task[i].res.ok /\ task[i].res.status = 404
    /\ \E i \in Probes : ~task[i].res.ok

\* The wordlist entry a probe result belongs to, by the URL probed.
WordOf(r) == CHOOSE i \in Probes : task[i].url = r.url

Kept == {i \in Probes : task[i].res.ok /\ task[i].res.status \in {200, 301, 302, 403}}

\* C4: found lists the kept probe results in wordlist order, whatever the
\* order in which the probes completed.
C4_WordlistOrder ==
    disc.pc = "done" =>
        /\ \A k \in DOMAIN Found : Found[k] = task[WordOf(Found[k])].res
        /\ \A k, l \in DOMAIN Found : k < l => WordOf(Found[k]) < WordOf(Found[l])
        /\ {WordOf(Found[k]) : k \in DOMAIN Found} = Kept

C4_Witness ==
    /\ disc.pc = "done"
    /\ \E k, l \in DOMAIN arrival :
          /\ k < l
          /\ arrival[k] > arrival[l]
          /\ arrival[k] \in Kept
          /\ arrival[l] \in Kept

\* C5: checked is the wordlist's size, one HEAD probe has been issued per
\* wordlist entry, and found is no longer than checked.
C5_Checked ==
    disc.pc = "done" =>
        /\ disc.report.checked = Len(wordlist)
        /\ headCalls = Len(wordlist)
        /\ \A i \in DOMAIN wordlist :
              /\ task[i].op = "head"
              /\ task[i].pc = "done"
              /\ task[i].url = disc.base \o <<"/">> \o wordlist[i]
        /\ Len(Found) <= disc.report.checked

C5_Witness ==
    /\ disc.pc = "done"
    /\ Len(Found) = 1
    /\ \E i \in Probes : ~task[i].res.ok
    /\ \E i \in Probes : task[i].res.ok /\ task[i].res.status = 404

\* C6: whichever probes fail, discover returns a report with ok = TRUE and
\* no error, and no failed probe is in found.
C6_PartialSuccess ==
    disc.pc = "done" =>
        /\ disc.report.ok
        /\ DOMAIN disc.report = {"ok", "found", "checked", "base"}
        /\ \A i \in Probes :
              ~task[i].res.ok => \A k \in DOMAIN Found : Found[k] # task[i].res

C6_Witness ==
    /\ disc.pc = "done"
    /\ is_valid_url(disc.arg)
    /\ \A i \in Probes : task[i].got.kind = "raised"
    /\ \E i \in Probes : task[i].got.e.cls = "ClientError"
    /\ disc.report.ok
    /\ Found = << >>

\* C7 (as claimed): called with a malformed base, discover issues no HEAD,
\* leaves the rate gate's last dispatch time alone and reports ok = FALSE.
C7_ShortCircuit ==
    (disc.pc # "idle" /\ ~is_valid_url(disc.arg)) =>
        /\ headCalls = 0
        /\ last_request_time = disc.gate0
        /\ disc.pc = "done" => ~disc.report.ok

\* C8 (as claimed): a head or get that fails returns ok = FALSE with an
\* error string that is not empty.
C8_ErrorString ==
    (Caller.pc = "done" /\ Caller.got.kind = "raised") =>
        /\ ~Caller.res.ok
        /\ Caller.res.error # << >>

\* C9: a GET body above the cap gives ok = FALSE, "Content too large" and,
\* from fetch_page, neither document nor listing flag; a body within the
\* cap is returned whole.
C9_SizeCap ==
    (Caller.pc = "done" /\ Caller.op \in {"get_raw", "fetch_page"}
        /\ Caller.got.kind = "response") =>
        IF Caller.got.r.body.len >= MAX_CONTENT_LENGTH + 1
        THEN /\ ~Caller.res.ok
             /\ Caller.res.error = <<"Content too large">>
             /\ {"soup", "text", "is_dir", "body"} \cap DOMAIN Caller.res = {}
        ELSE /\ Caller.res.ok
             /\ Caller.res.body = Caller.got.r.body
             /\ Caller.op = "fetch_page" => {"soup", "is_dir"} \subseteq DOMAIN Caller.res

C9_Witness ==
    /\ Caller.pc = "done"
    /\ Caller.op = "fetch_page"
    /\ Caller.got.kind = "response"
    /\ Caller.got.r.body.len = MAX_CONTENT_LENGTH + 1
    /\ ~Caller.res.ok

OpenPools == {p \in DOMAIN pools : pools[p] = "open"}

Sent(t) == task[t].pc # "inflight" /\ task'[t].pc = "inflight"

\* C10: a request reuses the open pool and creates one only when there is
\* none or it is closed; close without an open pool changes nothing; a
\* request after close opens a new pool; two pools are never open at once.
C10_PoolLifecycle ==
    [][ /\ Cardinality(OpenPools') <= 1
        /\ OpenPools' \subseteq {session'}
        /\ \A t \in Tasks : Sent(t) =>
              /\ session' \in OpenPools'
              /\ HasOpenPool => (session' = session /\ pools' = pools)
              /\ ~HasOpenPool => (session' = Len(pools) + 1 /\ Len(pools') = Len(pools) + 1)
        /\ session' # session => ~HasOpenPool
        /\ Len(pools') >= Len(pools)
        /\ (CloseCall /\ ~HasOpenPool) => UNCHANGED <<session, pools, closer>>
        /\ (CloseCall /\ HasOpenPool) => (session' = session /\ OpenPools' = {})
      ]_vars

C10_Witness ==
    /\ Len(pools) = 2
    /\ pools[1] = "closed"
    /\ session = 2
    /\ pools[2] = "open"
    /\ closer = "idle"
    /\ \E i, j \in Probes : i # j /\ task[i].pc = "inflight" /\ task[j].pc = "inflight"

\* The view the constructor gives for a list of no items.  build_dirs_embed
\* builds no view for such a list, so it is looked at as a value.
EmptyView == DirectoryView(ViewBase, << >>)

\* C11: after any sequence of next_page, prev_page and list_paths the
\* current page lies in 0..max_pages-1; a view of no items has max_pages 0,
\* every callback leaves it as it is but for the answer, on page 0, and its
\* page text is "(none)".
C11_PageInRange ==
    /\ view.made =>
          /\ view.max_pages > 0
          /\ view.current_page \in 0..(view.max_pages - 1)
    /\ EmptyView.max_pages = 0
    /\ EmptyView.current_page = 0
    /\ _get_page_content(EmptyView) = <<"(none)">>
    /\ \A b \in Buttons :
          /\ [Callback(b, EmptyView) EXCEPT !.shown = EmptyView.shown] = EmptyView
          /\ Callback(b, EmptyView).shown.kind \in {"send", "edit"} =>
                Callback(b, EmptyView).shown.msg.content = <<"(none)">>

\* An advance was asked for on the last page of a full list and refused.
C11_Witness ==
    /\ view.made
    /\ Len(view.found) = MaxItems
    /\ view.current_page = view.max_pages - 1
    /\ view.shown = [by |-> "next_page", kind |-> "defer"]

\* C12: prev_page on page 0 and next_page on the last page leave the page
\* where it is; elsewhere next_page adds exactly one and prev_page takes
\* exactly one away; list_paths never moves it; and nothing ever changes
\* found, page_size or max_pages.  (A view of no items has page 0 for its
\* first and last page.)
C12_Frame ==
    [][ view.made =>
          /\ view'.made
          /\ view'.found = view.found
          /\ view'.page_size = view.page_size
          /\ view'.max_pages = view.max_pages
          /\ view'.base_url = view.base_url
          /\ (~view.stopped /\ Click("prev_page")) =>
                view'.current_page =
                    IF view.current_page = 0 THEN 0 ELSE view.current_page - 1
          /\ (~view.stopped /\ Click("next_page")) =>
                view'.current_page =
                    IF view.current_page >= view.max_pages - 1
                    THEN view.current_page ELSE view.current_page + 1
          /\ (~view.stopped /\ Click("list_paths")) =>
                view'.current_page = view.current_page
          /\ view'.current_page # view.current_page =>
                Click("prev_page") \/ Click("next_page")
      ]_vars

\* A retreat was asked for on page 0 of a list of several pages and refused.
C12_Witness ==
    /\ view.made
    /\ view.max_pages > 1
    /\ view.current_page = 0
    /\ view.shown = [by |-> "prev_page", kind |-> "defer"]

\* The pages 0..max_pages-1 one after the other, each cut by the slice of
\* _get_page_content.
RECURSIVE AllPages(_, _)
AllPages(v, k) ==
    IF k >= v.max_pages THEN << >>
    ELSE page_items([v EXCEPT !.current_page = k]) \o AllPages(v, k + 1)

\* The text of the window found[k*page_size : (k+1)*page_size], written out
\* item by item.
WindowText(v, k) ==
    LET n == Len(v.found)
        first == k * v.page_size
        size == Min(v.page_size, n - first)
    IN Join([i \in 1..size |->
                <<"^", "/", PathWords[first + i], "^", " -> ",
                  StatusText(v.found[first + i].status)>>], "\n")

\* C13: max_pages is ceil(len(found) / page_size), 3 for 23 items; the
\* current page is exactly found[k*page_size : (k+1)*page_size], in order,
\* and that is what a page message shows; the pages 0..max_pages-1 laid end
\* to end are found, so every item is on exactly one page; and no page of a
\* list that is not empty is empty.
C13_Windows ==
    view.made =>
        LET n == Len(view.found)
            ps == view.page_size
            k == view.current_page
        IN /\ view.max_pages * ps >= n
           /\ (view.max_pages - 1) * ps < n
           /\ n = 23 => view.max_pages = 3
           /\ page_items(view) =
                 [i \in 1..Min(ps, n - k * ps) |-> view.found[k * ps + i]]
           /\ AllPages(view, 0) = view.found
           /\ \A i, j \in 1..n : view.found[i] = view.found[j] => i = j
           /\ n > 0 => page_items(view) # << >>
           /\ view.shown.kind \in {"send", "edit"} =>
                 /\ view.shown.msg.page = k + 1
                 /\ view.shown.msg.of = view.max_pages
                 /\ n > 0 => view.shown.msg.content = WindowText(view, k)

\* Page 1 of 23 items is on display: items 10..19.
C13_Witness ==
    /\ view.made
    /\ Len(view.found) = 23
    /\ view.current_page = 1
    /\ view.shown.kind = "edit"
    /\ Len(page_items(view)) = 10
    /\ page_items(view)[1] = view.found[11]

\* C14: once the idle timeout has fired, which it does only after
\* ViewTimeout of idle time, the view stays stopped: no button press is
\* answered any more and current_page never changes again.
C14_Frozen ==
    [][ (view.made /\ view.stopped) =>
          /\ view.idle = ViewTimeout
          /\ view'.stopped
          /\ view'.current_page = view.current_page
          /\ view'.shown = view.shown
          /\ \A b \in Buttons : Click(b) => view'.dropped
      ]_vars

\* The timeout fired on a middle page, on_timeout ran, and a button was
\* pressed after that.
C14_Witness ==
    /\ view.made
    /\ view.stopped
    /\ view.disabled
    /\ view.dropped
    /\ view.current_page > 0
    /\ view.current_page < view.max_pages - 1

\* analyze_dir has returned a report for a page it was served.
Analyzed ==
    /\ Caller.pc = "done"
    /\ Caller.op = "analyze_dir"
    /\ Caller.got.kind = "response"
    /\ Caller.res.ok

Served == Caller.got.r

\* The targets analyze_dir got out of the page, in document order, by kind.
FileTargets == Fulls(SelectSeq(Targets(Served.body.anchors, Caller.url), IsFile))

LinkTargets ==
    Fulls(SelectSeq(Targets(Served.body.anchors, Caller.url), LAMBDA t : ~IsFile(t)))

IsPrefixOf(s, t) == Len(s) <= Len(t) /\ s = SubSeq(t, 1, Len(s))

\* C15: links is the first min(20, n) of the n anchors classified as links,
\* in document order, files likewise, and neither has more than 20 entries.
C15_FirstTwenty ==
    Analyzed =>
        /\ Len(Caller.res.links) = Min(ListCap, Len(LinkTargets))
        /\ IsPrefixOf(Caller.res.links, LinkTargets)
        /\ Len(Caller.res.files) = Min(ListCap, Len(FileTargets))
        /\ IsPrefixOf(Caller.res.files, FileTargets)
        /\ Len(Caller.res.links) <= 20
        /\ Len(Caller.res.files) <= 20

\* A page with more than 20 links, and files between them, was analyzed.
C15_Witness ==
    /\ Analyzed
    /\ Len(LinkTargets) > ListCap
    /\ Len(Caller.res.links) = ListCap
    /\ Len(Caller.res.files) > 0

\* C16 (as claimed): every anchor is resolved against the final URL of the
\* page, the one after redirects, not against the URL analyze_dir was given.
C16_FinalUrlBase ==
    Analyzed =>
        LET ts == Targets(Served.body.anchors, Caller.res.url) IN
        /\ Caller.res.files = Cap(Fulls(SelectSeq(ts, IsFile)))
        /\ Caller.res.links = Cap(Fulls(SelectSeq(ts, LAMBDA t : ~IsFile(t))))

\* The path component of a target ends in a dot and one to four letters or
\* digits.
PathIsFile(full) == EndsInExtension(UrlPath(full))

\* C17 (as claimed): a target is a file exactly when its path component
\* ends in a dot and one to four letters or digits, whatever its query
\* string or fragment.
C17_PathExtension ==
    Analyzed =>
        /\ \A i \in DOMAIN Caller.res.files : PathIsFile(Caller.res.files[i])
        /\ \A i \in DOMAIN Caller.res.links : ~PathIsFile(Caller.res.links[i])

\* The letters, each in its two cases.
LetterPairs ==
    {<<UpperLetters[i], LowerLetters[i]>> : i \in DOMAIN UpperLetters}

\* Two characters that are the same letter in either case.
SameLetter(c, d) ==
    c = d \/ <<c, d>> \in LetterPairs \/ <<d, c>> \in LetterPairs

\* k occurs in s, in any case.
ContainsAnyCase(s, k) ==
    \E i \in 1..(Len(s) - Len(k) + 1) :
        \A j \in 1..Len(k) : SameLetter(s[i + j - 1], k[j])

\* The text of the page served, as decoded.
ServedText == Decode(Served.body)

\* The phrases and banners the claim names.
NamedIndicators ==
    { <<"i", "n", "d", "e", "x", " ", "o", "f">>,
      <<"d", "i", "r", "e", "c", "t", "o", "r", "y", " ", "l", "i", "s", "t", "i", "n", "g">>,
      <<"p", "a", "r", "e", "n", "t", " ", "d", "i", "r", "e", "c", "t", "o", "r", "y">>,
      <<"a", "p", "a", "c", "h", "e">>, <<"n", "g", "i", "n", "x">> }

\* C18 (as claimed): a page containing "Index of /uploads" in any case is a
\* listing; a page with none of "index of", "directory listing", "parent
\* directory" and no apache or nginx banner is not.
C18_ListingHeuristic ==
    Analyzed =>
        /\ ContainsAnyCase(ServedText, <<"i", "n", "d", "e", "x", " ", "o", "f", " ", "/", "u", "p", "l", "o", "a", "d", "s">>) =>
              Caller.res.is_listing
        /\ (\A k \in NamedIndicators : ~ContainsAnyCase(ServedText, k)) =>
              ~Caller.res.is_listing

\* C18 (amended): a page is a listing exactly when its text contains, in any
\* case, one of the nine strings of DIRECTORY_INDICATORS, which besides the
\* phrases and banners above are "name", "size", "modified" and
\* "<title>index of"; so "Index of /uploads" in any case is one, and an
\* article is one as soon as it has, say, a meta name= tag.
C18_AllIndicators ==
    Analyzed =>
        /\ ContainsAnyCase(ServedText, <<"i", "n", "d", "e", "x", " ", "o", "f", " ", "/", "u", "p", "l", "o", "a", "d", "s">>) =>
              Caller.res.is_listing
        /\ Caller.res.is_listing <=>
              \E k \in DIRECTORY_INDICATORS : ContainsAnyCase(ServedText, k)

\* A page saying INDEX OF /UPLOADS was analyzed.
C18_Witness ==
    /\ Analyzed
    /\ ServedText = ListingTextUpper
    /\ Caller.res.is_listing

\* The bases that do not end in a slash.
Origins == {b \in Bases : b = << >> \/ b[Len(b)] # "/"}

\* C19: discover(B) and discover(B + "/") probe the same candidate URLs,
\* B + "/" + w for every entry w of the wordlist, and report the same base B.
C19_SlashNormalised ==
    \A B \in Origins :
        (disc.pc # "idle" /\ disc.arg \in {B, B \o <<"/">>}) =>
            /\ disc.base = B
            /\ \A i \in Probes : task[i].url = B \o <<"/">> \o wordlist[i]
            /\ disc.pc = "done" => disc.report.base = B

\* discover was called with a base ending in a slash and has reported.
C19_Witness ==
    /\ disc.pc = "done"
    /\ disc.arg = <<"http", ":", "/", "/", "h", "/">>
    /\ disc.report.base = <<"http", ":", "/", "/", "h">>
    /\ \A i \in Probes : task[i].url = <<"http", ":", "/", "/", "h", "/">> \o wordlist[i]

\* The URLs typed that are no http(s) URL with a host.
MalformedUrls == { <<"ftp", ":", "/", "/", "h">>, <<"h">> }

\* The handlers that have a malformed URL, before or after the step.
MalformedStep(k) ==
    /\ bot'.h[k] # bot.h[k]
    /\ bot.h[k].url \in MalformedUrls \/ bot'.h[k].url \in MalformedUrls

\* C20: whatever the command and however it is invoked, one given a
\* malformed URL is refused before the scraper is called: every step of its
\* handler leaves the session, the time of the last dispatch, the requests
\* and everything else of the scraper as they were, also while other
\* commands are being served.
C20_MalformedNoIO ==
    [][ \A k \in Handlers :
          MalformedStep(k) =>
              /\ bot'.h[k].pc \in {"refused", "idle"}
              /\ bot'.h[k].pc = "refused" =>
                    bot'.h[k].reply \in {"wait", "Invalid URL."}
              /\ session' = session
              /\ last_request_time' = last_request_time
              /\ ScraperState' = ScraperState
      ]_vars

\* A crawl_dirs with a malformed URL, sent through the slash wrapper, was
\* refused as invalid after the scraper had been used: it has a session and
\* a last dispatch.
C20_Witness ==
    \E k \in Handlers :
        /\ bot.h[k].pc = "refused"
        /\ bot.h[k].reply = "Invalid URL."
        /\ bot.h[k].url \in MalformedUrls
        /\ bot.h[k].cmd = "crawl_dirs"
        /\ bot.h[k].via = "slash"
        /\ session # 0
        /\ last_request_time > 0

\* C21: discover reports only once every one of its HEAD probes has
\* completed, by a response or by a failure; until then the caller sees no
\* report at all, and the report's filter has run over the results of all
\* the probes: found holds exactly the probes that passed it.
C21_JoinBeforeReport ==
    /\ disc.pc # "done" => disc.report = NoReport
    /\ disc.pc = "done" =>
          /\ \A i \in Probes :
                /\ task[i].pc = "done"
                /\ task[i].got.kind \in {"response", "raised"}
                /\ task[i].res # NoResult
          /\ Len(arrival) = Len(wordlist)
          /\ {arrival[k] : k \in DOMAIN arrival} = Probes
          /\ Len(Found) =
                Cardinality({i \in Probes :
                    task[i].res.ok /\ task[i].res.status \in FoundStatuses})
          /\ \A i \in Probes :
                task[i].res.ok /\ task[i].res.status \in FoundStatuses
                    => \E k \in DOMAIN Found : Found[k] = task[i].res

\* The last probe to complete did so by a
\* time-out, after a kept answer and an answer of 404 had come in.
C21_Witness ==
    /\ disc.pc = "done"
    /\ Len(arrival) = Len(wordlist)
    /\ LET last == arrival[Len(arrival)] IN
          /\ task[last].got.kind = "raised"
          /\ task[last].got.e.cls = "TimeoutError"
    /\ \E i \in Probes : task[i].res.ok /\ task[i].res.status = 404
    /\ Len(Found) = 1

\* The calls of check_rate_limit by a user, and the latest accepted one
\* before the k-th call.
Calls == bot.calls

AcceptedBefore(k, u) == {i \in 1..(k - 1) : Calls[i].user = u /\ Calls[i].ok}

LastAccepted(k, u) ==
    IF AcceptedBefore(k, u) = {} THEN 0
    ELSE Calls[CHOOSE i \in AcceptedBefore(k, u) :
                   \A j \in AcceptedBefore(k, u) : j <= i].at

\* C22: two accepted calls of one user are at least RATE_LIMIT apart; the
\* time recorded for a user is that of the user's latest accepted call, so
\* a refused call and a call of another user leave it as it was; and a call
\* is accepted exactly when RATE_LIMIT has passed since the same user's
\* latest accepted call, whatever the other users did.
C22_PerUserLimit ==
    /\ \A i, j \in DOMAIN Calls :
          i < j /\ Calls[i].user = Calls[j].user /\ Calls[i].ok /\ Calls[j].ok
              => Calls[j].at - Calls[i].at >= RATE_LIMIT
    /\ \A u \in Users :
          bot.user_last_request[u] = LastAccepted(Len(Calls) + 1, u)
    /\ \A k \in DOMAIN Calls :
          Calls[k].ok <=>
              Calls[k].at - LastAccepted(k, Calls[k].user) >= RATE_LIMIT

\* u1 is accepted, refused halfway through the wait and accepted again when
\* RATE_LIMIT has passed since the first call, with an accepted call of u2
\* in between.
C22_Witness ==
    /\ Len(Calls) = 4
    /\ Calls[1].user = "u1" /\ Calls[1].ok
    /\ Calls[2].user = "u2" /\ Calls[2].ok /\ Calls[2].at > Calls[1].at
    /\ Calls[3].user = "u1" /\ ~Calls[3].ok /\ Calls[3].at > Calls[2].at
    /\ Calls[4].user = "u1" /\ Calls[4].ok
    /\ Calls[4].at = Calls[1].at + RATE_LIMIT

\* A close that found an open pool has completed.
CloseCompleted == closer = "idle" /\ \E p \in DOMAIN pools : pools[p] = "closed"

\* C23 (as claimed): once a close has completed, the requests that were
\* under way when it ran open no pool.  The head calls here are those of one
\* discover, all made before the wrapper had a pool to close, so none is
\* started after a close and the wrapper is left with no open pool.
C23_NoReopen == CloseCompleted => OpenPools = {}
====
